---------------------------- MODULE Spec2Model ----------------------------
(***************************************************************************)
(* The filtering and aggregation pipeline of the e-commerce dashboards.    *)
(*                                                                         *)
(* Three programs are modelled, each with its own input file:              *)
(*   scripts/streamlit_dashboard.py  (script "dashboard")                  *)
(*   app/streamlit_app.py            (script "app")                        *)
(*   back-end/app.py                 (the Flask backend)                   *)
(*                                                                         *)
(* A timestamp is a tuple <<period, day, time>>: period is the month       *)
(* ordinal (months since year 0), day the day of the month, time 0 for     *)
(* midnight and 1 for a later time of the same day.  Tuples are ordered    *)
(* lexicographically.  NaT and NaN are the empty tuple.                    *)
(***************************************************************************)
EXTENDS Integers, Sequences, FiniteSets, TLC

(* Bounds of the model. *)
MaxRows == 2
MaxReq == 2

NaT == <<>>
NaN == <<>>
NoCategory == "nan"

(***************************************************************************)
(* Generic helpers: what the pandas primitives used by the code compute.   *)
(***************************************************************************)

RECURSIVE LexLess(_, _)
LexLess(a, b) ==
    IF a = <<>> \/ b = <<>> THEN FALSE
    ELSE IF Head(a) # Head(b) THEN Head(a) < Head(b)
    ELSE LexLess(Tail(a), Tail(b))

(* Comparisons of timestamps; any comparison with NaT is False. *)
TsLeq(a, b) == a # NaT /\ b # NaT /\ (a = b \/ LexLess(a, b))
TsGeq(a, b) == TsLeq(b, a)

RECURSIVE SumCol(_, _)
SumCol(rows, col) ==
    IF rows = <<>> THEN 0 ELSE Head(rows)[col] + SumCol(Tail(rows), col)

(* Series.mean(): NaN for an empty series, else the fraction <<sum, n>>. *)
MeanCol(rows, col) ==
    IF Len(rows) = 0 THEN NaN ELSE <<SumCol(rows, col), Len(rows)>>

ColValues(rows, col) == {rows[i][col] : i \in 1..Len(rows)}

RowsWhere(rows, col, v) == SelectSeq(rows, LAMBDA r : r[col] = v)

(* groupby(col)[val].sum(): one entry per distinct non-missing key. *)
GroupBySum(rows, col, val) ==
    [k \in ColValues(rows, col) \ {NoCategory} |->
        SumCol(RowsWhere(rows, col, k), val)]

RECURSIVE SumValues(_)
SumValues(f) ==
    IF DOMAIN f = {} THEN 0
    ELSE LET k == CHOOSE x \in DOMAIN f : TRUE
         IN f[k] + SumValues([x \in DOMAIN f \ {k} |-> f[x]])

(* The ascending sequence of a finite set of integers. *)
RECURSIVE SortedSeq(_)
SortedSeq(S) ==
    IF S = {} THEN <<>>
    ELSE LET m == CHOOSE x \in S : \A y \in S : x <= y
         IN <<m>> \o SortedSeq(S \ {m})


(***************************************************************************)
(* Input files of the two Streamlit scripts (cleaned_data.xlsx).  A date   *)
(* cell either holds a date-time or text that is no date.                  *)
(***************************************************************************)
Periods == 11..13
Stamps == {<<p, 1, t>> : p \in Periods, t \in 0..1}
Dates == {<<p, 1>> : p \in Periods}
Categories == {"A", "B"}
DateCells ==
    {[kind |-> "date", val |-> s] : s \in Stamps}
        \cup {[kind |-> "text", val |-> NaT]}
RawRows ==
    [purchase_date : DateCells, product_category : Categories,
     total_purchase_amount : 1..2, returns : 0..1]
RawFiles == UNION {[1..n -> RawRows] : n \in 0..MaxRows}
(* What st.sidebar.date_input returns in range mode: both ends, or only    *)
(* the start while the user is still picking the end.                      *)
DateInputs == (Dates \X Dates) \cup {<<d>> : d \in Dates}

VARIABLES
    file,          \* the spreadsheet read by the Streamlit scripts
    script,        \* the script of the last run
    status,        \* "ok", or "error" when the run raised
    date_range,    \* the date_input value of the last run
    categories,    \* the multiselect value of the last run
    df,            \* the Dataset of the last run
    filtered_df,   \* the Filtered view of the last run
    kpi,           \* the four st.metric values
    rev_cat,       \* revenue by category
    monthly        \* the monthly revenue series

dashVars ==
    <<file, script, status, date_range, categories, df, filtered_df, kpi,
      rev_cat, monthly>>

VARIABLES
    bfile,     \* the spreadsheet read by the backend
    server,    \* "starting", "serving", or "crashed" when the import raised
    bdf,       \* the module-level df
    resp,      \* the last response of /api/kpis or /api/category_sales
    pc,        \* per request thread: "idle", "written", "done"
    args,      \* per request thread: <<start_date, end_date>>
    disk,      \* the content of sales_report.pdf
    sent       \* per request thread: the document send_file returned

backendVars == <<bfile, server, bdf, resp, pc, args, disk, sent>>

vars == <<dashVars, backendVars>>

(* pd.read_excel: the rows in file order under a RangeIndex 0..n-1. *)
ReadExcel(f) ==
    [i \in 1..Len(f) |->
        [index |-> i - 1,
         purchase_date |-> f[i].purchase_date,
         product_category |-> f[i].product_category,
         total_purchase_amount |-> f[i].total_purchase_amount,
         returns |-> f[i].returns]]

(* pd.to_datetime(..., errors="coerce") on one cell. *)
ToDatetimeCoerce(cell) == IF cell.kind = "date" THEN cell.val ELSE NaT

ParseDatesCoerce(rows) ==
    [i \in 1..Len(rows) |->
        [rows[i] EXCEPT !.purchase_date = ToDatetimeCoerce(@)]]

(* df.dropna(subset=["purchase_date"]) *)
DropNa(rows) == SelectSeq(rows, LAMBDA r : r.purchase_date # NaT)

IsSortedByDate(rows) ==
    \A i \in 1..Len(rows) - 1 :
        TsLeq(rows[i].purchase_date, rows[i + 1].purchase_date)

(* df.sort_values(by="purchase_date"): the default kind is quicksort,      *)
(* which is not stable, so every ascending arrangement is a possible       *)
(* outcome.                                                                *)
SortValues(rows) ==
    {s \in {[i \in 1..Len(rows) |-> rows[f[i]]] :
                f \in Permutations(1..Len(rows))} : IsSortedByDate(s)}

(* pd.to_datetime(<date>): midnight of that date. *)
ToDatetimeDate(d) == <<d[1], d[2], 0>>

(* Timestamp.date() *)
DateOf(ts) == <<ts[1], ts[2]>>

FilterRows(rows, dr, cats) ==
    SelectSeq(rows, LAMBDA r :
        /\ TsGeq(r.purchase_date, ToDatetimeDate(dr[1]))
        /\ TsLeq(r.purchase_date, ToDatetimeDate(dr[2]))
        /\ r.product_category \in cats)

Kpis(view) ==
    [orders |-> Len(view),
     revenue |-> SumCol(view, "total_purchase_amount"),
     avg_order |-> MeanCol(view, "total_purchase_amount"),
     return_rate |-> MeanCol(view, "returns")]

PeriodOf(ts) == ts[1]
RowsInPeriod(view, p) ==
    SelectSeq(view, LAMBDA r : PeriodOf(r.purchase_date) = p)
PeriodsOf(view) ==
    {PeriodOf(view[i].purchase_date) : i \in 1..Len(view)}

(* Period.astype(str): "YYYY-MM", as the pair <<year, month>>. *)
PeriodStr(p) == <<p \div 12, (p % 12) + 1>>

(* The label of a resample("M") bin: the last day of the month, midnight.  *)
MonthEnd(p) == <<p, 31, 0>>

(* The sum of each month of ps, in the order of ps. *)
BucketSums(view, ps) ==
    [i \in 1..Len(ps) |->
        [period |-> ps[i],
         value |-> SumCol(RowsInPeriod(view, ps[i]),
                          "total_purchase_amount")]]

(* The series with its month-end Timestamp index. *)
MonthEndSeries(b) ==
    [i \in 1..Len(b) |-> [key |-> MonthEnd(b[i].period), value |-> b[i].value]]

(* monthly_revenue.index = monthly_revenue.index.astype(str) *)
StrIndexSeries(b) ==
    [i \in 1..Len(b) |-> [key |-> PeriodStr(b[i].period), value |-> b[i].value]]

(* groupby(purchase_date.dt.to_period("M")).sum(), index as strings. *)
MonthlyGroupBy(view) ==
    StrIndexSeries(BucketSums(view, SortedSeq(PeriodsOf(view))))

(* The months of a view in the order in which its rows first show them. *)
RECURSIVE PeriodsFirstSeen(_)
PeriodsFirstSeen(view) ==
    IF view = <<>> THEN <<>>
    ELSE LET rest == PeriodsFirstSeen(SubSeq(view, 1, Len(view) - 1))
             p == PeriodOf(view[Len(view)].purchase_date)
         IN IF \E i \in 1..Len(rest) : rest[i] = p THEN rest
            ELSE Append(rest, p)

(* A monthly series grouped without sorting its keys (sort=False). *)
MonthlyFirstSeen(view) ==
    MonthEndSeries(BucketSums(view, PeriodsFirstSeen(view)))

(* set_index("purchase_date").resample("M").sum(): one bin for every       *)
(* month from the first to the last month of the view.                     *)
MonthlyResample(view) ==
    IF view = <<>> THEN <<>>
    ELSE LET ps == PeriodsOf(view)
             lo == CHOOSE x \in ps : \A y \in ps : x <= y
             hi == CHOOSE x \in ps : \A y \in ps : y <= x
         IN MonthEndSeries(BucketSums(view, SortedSeq(lo..hi)))

NoKpi == [orders |-> 0, revenue |-> 0, avg_order |-> NaN, return_rate |-> NaN]

(* A run that raised before the filter: nothing after it is computed. *)
RunFailed(s, d, dr) ==
    /\ script' = s
    /\ status' = "error"
    /\ df' = d
    /\ date_range' = dr
    /\ categories' = {}
    /\ filtered_df' = <<>>
    /\ kpi' = NoKpi
    /\ rev_cat' = <<>>
    /\ monthly' = <<>>
    /\ UNCHANGED <<file, backendVars>>

RunScript(s, d) ==
    IF d = <<>>
    THEN \* df["purchase_date"].min() and .max() are NaT, which
         \* st.sidebar.date_input cannot take as its default: it raises
         RunFailed(s, d, <<>>)
    ELSE \E dr \in DateInputs :
           IF Len(dr) < 2
           THEN \* date_range[1] raises IndexError
                RunFailed(s, d, dr)
           ELSE \E cats \in SUBSET ColValues(d, "product_category") :
                  LET view == FilterRows(d, dr, cats) IN
                  /\ script' = s
                  /\ status' = "ok"
                  /\ df' = d
                  /\ date_range' = dr
                  /\ categories' = cats
                  /\ filtered_df' = view
                  /\ kpi' = Kpis(view)
                  /\ rev_cat' = GroupBySum(view, "product_category",
                                           "total_purchase_amount")
                  /\ monthly' = IF s = "dashboard"
                                 THEN MonthlyGroupBy(view)
                                 ELSE MonthlyResample(view)
                  /\ UNCHANGED <<file, backendVars>>

(* Streamlit executes a script from its first line on every run and the    *)
(* scripts keep nothing between runs (no cache, no session state), so a    *)
(* run never sees an earlier one: each behaviour is one run, from the      *)
(* file to the rendered values.                                            *)

(* One run of scripts/streamlit_dashboard.py, top to bottom. *)
RunDashboard ==
    /\ status = "none"
    /\ \E d \in SortValues(DropNa(ParseDatesCoerce(ReadExcel(file)))) :
          RunScript("dashboard", d)

(* One run of app/streamlit_app.py, top to bottom. *)
RunApp ==
    /\ status = "none"
    /\ RunScript("app", DropNa(ParseDatesCoerce(ReadExcel(file))))

InitDashVars ==
    /\ script = "none"
    /\ status = "none"
    /\ date_range = <<>>
    /\ categories = {}
    /\ df = <<>>
    /\ filtered_df = <<>>
    /\ kpi = NoKpi
    /\ rev_cat = <<>>
    /\ monthly = <<>>

NextDash == RunDashboard \/ RunApp


(***************************************************************************)
(* The Flask backend (back-end/app.py) and its input file                  *)
(* (ecommerce_sales_dataset.xlsx).  A date cell holds a date-time, text    *)
(* that is no date, or nothing.                                            *)
(***************************************************************************)
BackendStamps == {<<11, 1, 0>>, <<12, 1, 0>>}
BackendDates == {<<11, 1>>, <<12, 1>>}
BackendCells ==
    {[kind |-> "date", val |-> s] : s \in BackendStamps}
        \cup {[kind |-> "text", val |-> NaT], [kind |-> "blank", val |-> NaT]}
BackendRows ==
    [order_id : 1..2, order_date : BackendCells,
     product_category : {"A", NoCategory}, total_price : 1..2]
BackendFiles == UNION {[1..n -> BackendRows] : n \in 0..MaxRows}
Threads == 1..MaxReq

NoDoc == <<>>
NoResp == [endpoint |-> "none", status |-> 0, body |-> <<>>]

(* pd.to_datetime(df['order_date']) raises when a cell is no date. *)
ToDatetimeRaises(rows) ==
    \E i \in 1..Len(rows) : rows[i].order_date.kind = "text"

(* pd.to_datetime on the column when it does not raise: an empty cell      *)
(* becomes NaT and the row stays.                                          *)
ParseDatesStrict(rows) ==
    [i \in 1..Len(rows) |-> [rows[i] EXCEPT !.order_date = @.val]]

(* Lines 7-8: the module-level load, run once when the module is imported. *)
ImportModule ==
    /\ server = "starting"
    /\ IF ToDatetimeRaises(bfile)
       THEN server' = "crashed" /\ bdf' = <<>>
       ELSE server' = "serving" /\ bdf' = ParseDatesStrict(bfile)
    /\ UNCHANGED <<dashVars, bfile, resp, pc, args, disk, sent>>

TotalRevenue(d) == SumCol(d, "total_price")

(* Series.nunique() *)
NUnique(d, col) == Cardinality(ColValues(d, col))

(* kpis(): the division is a Python division; with no order it raises      *)
(* ZeroDivisionError (the sum of an empty object column is the int 0) and  *)
(* Flask answers 500.                                                      *)
KpisResponse(d) ==
    LET total_revenue == TotalRevenue(d)
        total_orders == NUnique(d, "order_id")
    IN IF total_orders = 0
       THEN [endpoint |-> "kpis", status |-> 500, body |-> <<>>]
       ELSE [endpoint |-> "kpis", status |-> 200,
             body |-> [total_revenue |-> total_revenue,
                       total_orders |-> total_orders,
                       avg_order_value |-> <<total_revenue, total_orders>>]]

KpisRequest ==
    /\ server = "serving"
    /\ resp' = KpisResponse(bdf)
    /\ UNCHANGED <<dashVars, bfile, server, bdf, pc, args, disk, sent>>

CategorySalesResponse(d) ==
    [endpoint |-> "category_sales", status |-> 200,
     body |-> GroupBySum(d, "product_category", "total_price")]

CategorySalesRequest ==
    /\ server = "serving"
    /\ resp' = CategorySalesResponse(bdf)
    /\ UNCHANGED <<dashVars, bfile, server, bdf, pc, args, disk, sent>>

(* The comparison of the datetime column with a "YYYY-MM-DD" string: the   *)
(* string is parsed to midnight of that date.                              *)
ReportFilter(d, a) ==
    SelectSeq(d, LAMBDA r :
        /\ TsGeq(r.order_date, ToDatetimeDate(a[1]))
        /\ TsLeq(r.order_date, ToDatetimeDate(a[2])))

(* The two figures printed into the PDF. *)
ReportDoc(d, a) ==
    LET filtered == ReportFilter(d, a)
    IN <<TotalRevenue(filtered), NUnique(filtered, "order_id")>>

(* generate_report() up to pdf.output(file_name): every request writes the *)
(* same file, sales_report.pdf.                                            *)
ReportWrite(t) ==
    /\ server = "serving"
    /\ pc[t] \in {"idle", "done"}
    /\ \E a \in BackendDates \X BackendDates :
         /\ args' = [args EXCEPT ![t] = a]
         /\ disk' = ReportDoc(bdf, a)
    /\ pc' = [pc EXCEPT ![t] = "written"]
    /\ sent' = [sent EXCEPT ![t] = NoDoc]
    /\ UNCHANGED <<dashVars, bfile, server, bdf, resp>>

(* send_file(file_name): whatever the file holds now. *)
ReportSend(t) ==
    /\ pc[t] = "written"
    /\ sent' = [sent EXCEPT ![t] = disk]
    /\ pc' = [pc EXCEPT ![t] = "done"]
    /\ UNCHANGED <<dashVars, bfile, server, bdf, resp, args, disk>>

InitBackendVars ==
    /\ server = "starting"
    /\ bdf = <<>>
    /\ resp = NoResp
    /\ pc = [t \in Threads |-> "idle"]
    /\ args = [t \in Threads |-> <<>>]
    /\ disk = NoDoc
    /\ sent = [t \in Threads |-> NoDoc]

InitBackend ==
    /\ bfile \in BackendFiles
    /\ InitBackendVars
    /\ file = <<>>
    /\ InitDashVars

NextBackend ==
    \/ ImportModule
    \/ KpisRequest
    \/ CategorySalesRequest
    \/ \E t \in Threads : ReportWrite(t)
    \/ \E t \in Threads : ReportSend(t)

SpecBackend == InitBackend /\ [][NextBackend]_vars

InitDash ==
    /\ file \in RawFiles
    /\ InitDashVars
    /\ bfile = <<>>
    /\ InitBackendVars

SpecDash == InitDash /\ [][NextDash]_vars


(* The files of SpecMonthly: the monthly series and the revenue total read *)
(* the date, the category (through the filter) and the amount of a row,    *)
(* never its returns flag, which is left at 0.                             *)
MonthlyFiles ==
    UNION {[1..n -> {r \in RawRows : r.returns = 0}] : n \in 0..MaxRows}

InitMonthly ==
    /\ file \in MonthlyFiles
    /\ InitDashVars
    /\ bfile = <<>>
    /\ InitBackendVars

SpecMonthly == InitMonthly /\ [][NextDash]_vars

(***************************************************************************)
(* The claims.                                                             *)
(***************************************************************************)

DateLeq(a, b) == a = b \/ LexLess(a, b)

(* The row's calendar date lies in [start, end], both ends inclusive. *)
InDateRange(ts, dr) ==
    /\ DateLeq(dr[1], DateOf(ts))
    /\ DateLeq(DateOf(ts), dr[2])

InView(r, view) == \E j \in 1..Len(view) : view[j] = r

(* The month of a bucket, read back from its key. *)
BucketPeriod(key) ==
    IF Len(key) = 2 THEN key[1] * 12 + key[2] - 1 ELSE key[1]

TupleLeq(a, b) == a = b \/ LexLess(a, b)

RECURSIVE SumSeries(_)
SumSeries(series) ==
    IF series = <<>> THEN 0
    ELSE Head(series).value + SumSeries(Tail(series))

(* C1: the Filtered view holds exactly the Dataset rows whose timestamp    *)
(* falls on a date in [start, end] (any time of day on the end date        *)
(* included) and whose category is accepted; it is never longer than the   *)
(* Dataset.                                                                *)
C1_FilteredViewExact ==
    status = "ok" =>
        /\ Len(filtered_df) <= Len(df)
        /\ \A j \in 1..Len(filtered_df) : InView(filtered_df[j], df)
        /\ \A i \in 1..Len(df) :
             InView(df[i], filtered_df) <=>
                /\ InDateRange(df[i].purchase_date, date_range)
                /\ df[i].product_category \in categories

(* C2: over an empty view the aggregates do not raise: order count 0,      *)
(* total revenue 0, average order value reported as "no data".  Stated     *)
(* for /api/kpis, whose view is the whole Dataset.                         *)
C2_EmptyViewNoData ==
    (resp.endpoint = "kpis" /\ bdf = <<>>) =>
        /\ resp.status = 200
        /\ resp.body.total_orders = 0
        /\ resp.body.total_revenue = 0
        /\ resp.body.avg_order_value = NaN

(* C3: the reported order count is the number of rows of the view, also    *)
(* when rows share an order identifier.  Stated for /api/kpis.             *)
C3_OrderCountIsRowCount ==
    (resp.endpoint = "kpis" /\ resp.status = 200) =>
        resp.body.total_orders = Len(bdf)

(* C4: every bucket of the monthly revenue series is a month with at       *)
(* least one row of the view.                                              *)
C4_NoEmptyBuckets ==
    status = "ok" =>
        \A i \in 1..Len(monthly) :
            \E j \in 1..Len(filtered_df) :
                PeriodOf(filtered_df[j].purchase_date)
                    = BucketPeriod(monthly[i].key)

(* C5: the monthly revenue series is in non-decreasing order of its month  *)
(* key, whatever the row order of the view, and its bucket values add up   *)
(* to the total revenue of the same view.                                  *)
C5_MonthlyOrderedAndSums ==
    status = "ok" =>
        /\ \A i \in 1..Len(monthly) - 1 :
             TupleLeq(monthly[i].key, monthly[i + 1].key)
        /\ SumSeries(monthly) = kpi.revenue

(* A run of app/streamlit_app.py whose view is not in date order and whose *)
(* series has several buckets.                                             *)
C5_Witness ==
    /\ status = "ok"
    /\ script = "app"
    /\ Len(filtered_df) >= 2
    /\ ~IsSortedByDate(filtered_df)
    /\ Len(monthly) >= 2
    /\ kpi.revenue >= 3

(* C6: over the full Dataset the values of the revenue-by-category mapping *)
(* add up to the total revenue of the Dataset, rows without a category     *)
(* included, and every key of the mapping is a category that has rows.     *)
C6_CategorySumsToTotal ==
    resp.endpoint = "category_sales" =>
        /\ SumValues(resp.body) = TotalRevenue(bdf)
        /\ DOMAIN resp.body \subseteq ColValues(bdf, "product_category")

(* C7: rows whose timestamp cannot be parsed are dropped without an error: *)
(* the load does not raise and the Dataset holds exactly the rows with a   *)
(* parseable timestamp.  Stated for the backend.                           *)
C7_UnparseableRowsDropped ==
    /\ server # "crashed"
    /\ server = "serving" =>
         /\ \A i \in 1..Len(bdf) : bdf[i].order_date # NaT
         /\ Len(bdf) = Len(SelectSeq(bfile,
                                     LAMBDA r : r.order_date.kind = "date"))

(* C8: the document a report request returns carries the totals of the     *)
(* rows within that request's own range, also when requests overlap.       *)
C8_ReportIsOwnRange ==
    \A t \in Threads :
        pc[t] = "done" => sent[t] = ReportDoc(bdf, args[t])

(* C9: the Dataset stays the loaded Dataset, and what a request returns    *)
(* depends only on the Dataset and on that request's own criteria.         *)
C9_DatasetFrozenResultsPure ==
    LET dataset == ParseDatesStrict(bfile) IN
    /\ server = "serving" => bdf = dataset
    /\ resp.endpoint = "kpis" => resp = KpisResponse(dataset)
    /\ resp.endpoint = "category_sales" =>
         resp = CategorySalesResponse(dataset)
    /\ \A t \in Threads :
         pc[t] = "done" =>
            \E a \in BackendDates \X BackendDates :
                a = args[t] /\ sent[t] = ReportDoc(dataset, a)

(* C10: the Dataset is in ascending timestamp order, rows with equal       *)
(* timestamps keep their file order, and its rows are the parseable rows   *)
(* of the file.                                                            *)
C10_SortedStablePermutation ==
    status # "none" =>
        LET parseable == DropNa(ParseDatesCoerce(ReadExcel(file))) IN
        /\ IsSortedByDate(df)
        /\ \A i \in 1..Len(df) : \A j \in 1..Len(df) :
             (i < j /\ df[i].purchase_date = df[j].purchase_date)
                => df[i].index < df[j].index
        /\ Len(df) = Len(parseable)
        /\ ColValues(df, "index") = ColValues(parseable, "index")
        /\ \A i \in 1..Len(df) : InView(df[i], parseable)

=============================================================================
